---- MODULE Spec2Model ----
(***************************************************************************)
(* Student-Performance: the tabular preprocessing pipeline.                *)
(*                                                                         *)
(* Batch mode  : DataPreprocessing notebook (read, concat, split, fit,     *)
(*               transform, write).                                        *)
(* Served mode : sagemaker_preprocessing.py (fit + joblib.dump in          *)
(*               __main__), the transform job over train.csv,              *)
(*               sagemaker_modeling.py (fit of the regressor on the job's  *)
(*               output), then model_fn / input_fn / predict_fn /          *)
(*               output_fn per request.                                    *)
(*                                                                         *)
(* Conventions.  A CSV text is a sequence of lines, a line a sequence of   *)
(* fields, a field a string.  A table is a record                          *)
(*   [columns : Seq(STRING), index : Seq(STRING), rows : Seq(Seq(STRING))].*)
(* Floating-point values are exact rationals <<n, d>> with d > 0 in lowest *)
(* terms.                                                                  *)
(***************************************************************************)
EXTENDS Integers, Sequences, FiniteSets, TLC

(***************************************************************************)
(* Program constants.                                                      *)
(***************************************************************************)
feature_columns_names ==
  << "school", "sex", "age", "address", "famsize", "Pstatus", "Medu", "Fedu",
     "Mjob", "Fjob", "reason", "guardian", "traveltime", "studytime",
     "failures", "schoolsup", "famsup", "paid", "activities", "nursery",
     "higher", "internet", "romantic", "famrel", "freetime", "goout", "Dalc",
     "Walc", "health", "absences", "G1", "G2" >>

label_column == "G3"

numeric_cols_to_keep ==
  << "age", "Medu", "traveltime", "studytime", "failures", "goout", "Dalc",
     "absences" >>

nominal_cols_to_keep ==
  << "address", "Fjob", "guardian", "higher", "internet", "romantic" >>

(***************************************************************************)
(* Generic helpers.                                                        *)
(***************************************************************************)
Range(s) == { s[i] : i \in DOMAIN s }

RECURSIVE Flatten(_)
Flatten(ss) == IF ss = << >> THEN << >> ELSE Head(ss) \o Flatten(Tail(ss))

Abs(n) == IF n < 0 THEN -n ELSE n

RECURSIVE GCD(_, _)
GCD(a, b) == IF b = 0 THEN a ELSE GCD(b, a % b)

(* Exact rational arithmetic standing for the float arithmetic of numpy.   *)
Rat(n, d) ==
  LET g == GCD(Abs(n), d) IN << n \div g, d \div g >>

RatMul(a, b) == Rat(a[1] * b[1], a[2] * b[2])
RatAdd(a, b) == Rat(a[1] * b[2] + b[1] * a[2], a[2] * b[2])
RatNeg(a) == << -a[1], a[2] >>
RatLeq(a, b) == a[1] * b[2] <= b[1] * a[2]
RatLt(a, b) == a[1] * b[2] < b[1] * a[2]
RatZero == Rat(0, 1)
RatOne == Rat(1, 1)
RatNaN == << 0, 0 >>

(* Decimal text of the integers the data can hold, and its parse.          *)
NumText ==
  << "0", "1", "2", "3", "4", "5", "6", "7", "8", "9", "10", "11", "12",
     "13", "14", "15", "16", "17", "18", "19", "20", "21", "22", "23", "24" >>

IsNum(s) == \E i \in DOMAIN NumText : NumText[i] = s
IntOf(s) == (CHOOSE i \in DOMAIN NumText : NumText[i] = s) - 1

(* Code-point order of the strings found in nominal columns (np.unique     *)
(* sorts the categories).                                                  *)
StrOrder ==
  << "A", "F", "GP", "GT3", "LE3", "M", "MS", "R", "T", "U", "at_home",
     "course", "father", "health", "home", "mother", "no", "other",
     "reputation", "services", "teacher", "yes" >>

StrRank(s) ==
  IF \E i \in DOMAIN StrOrder : StrOrder[i] = s
    THEN CHOOSE i \in DOMAIN StrOrder : StrOrder[i] = s
    ELSE IF IsNum(s) THEN 0 ELSE Len(StrOrder) + 1

RECURSIVE SortedSeq(_)
SortedSeq(S) ==
  IF S = {} THEN << >>
  ELSE LET m == CHOOSE x \in S : \A y \in S : StrRank(x) <= StrRank(y)
       IN  << m >> \o SortedSeq(S \ {m})

(***************************************************************************)
(* Tables (pandas.DataFrame).                                              *)
(***************************************************************************)
HasCol(columns, name) == \E i \in DOMAIN columns : columns[i] = name

ColIndex(columns, name) ==
  CHOOSE i \in DOMAIN columns :
    columns[i] = name /\ \A j \in DOMAIN columns : columns[j] = name => i <= j

Cell(table, r, name) == table.rows[r][ColIndex(table.columns, name)]

ColumnValues(table, name) == { Cell(table, r, name) : r \in DOMAIN table.rows }

EmptyTable == [columns |-> << >>, index |-> << >>, rows |-> << >>]

NaN == "nan"

(* pd.concat([a, b]), join='outer': the columns of a, then the columns of  *)
(* b that a lacks; rows of a, then rows of b, each keeping its own index   *)
(* label; a cell of a column the row's source lacks is NaN.                *)
Concat(a, b) ==
  LET extra == SelectSeq(b.columns, LAMBDA c : ~HasCol(a.columns, c))
      cols  == a.columns \o extra
      widen(t) ==
        [r \in DOMAIN t.rows |->
           [i \in DOMAIN cols |->
              IF HasCol(t.columns, cols[i]) THEN Cell(t, r, cols[i]) ELSE NaN]]
  IN  [columns |-> cols, index |-> a.index \o b.index,
       rows |-> widen(a) \o widen(b)]

(***************************************************************************)
(* Results of operations that may raise.                                   *)
(***************************************************************************)
Ok(v) == [kind |-> "ok", error |-> "", value |-> v]
Raise(e) == [kind |-> "error", error |-> e, value |-> << >>]

(***************************************************************************)
(* ColumnTransformer(numeric: MinMaxScaler, nominal: OneHotEncoder(        *)
(* drop='if_binary', handle_unknown='error'), remainder='drop').           *)
(***************************************************************************)
NumericSet == Range(numeric_cols_to_keep)
NominalSet == Range(nominal_cols_to_keep)
SelectedSet == NumericSet \cup NominalSet

SetMin(S) == CHOOSE x \in S : \A y \in S : x <= y
SetMax(S) == CHOOSE x \in S : \A y \in S : y <= x

(* MinMaxScaler: _handle_zeros_in_scale replaces a zero range by 1.        *)
HandleZerosInScale(range) == IF range = 0 THEN 1 ELSE range

(* Variant: the range taken one too wide.                                  *)
ScaleOfOffByOne(lo, hi) == Rat(1, HandleZerosInScale(hi - lo) + 1)

(* MinMaxScaler.fit: scale_ = (1 - 0) / handle_zeros(data_range_),         *)
(* min_ = 0 - data_min_ * scale_.                                          *)
ScaleOf(lo, hi) == Rat(1, HandleZerosInScale(hi - lo))
MinOf(lo, hi) == RatNeg(RatMul(Rat(lo, 1), ScaleOf(lo, hi)))

(* Variant: drop='first', the first category dropped whatever their count. *)
DropIdxFirst(cats) == 0

(* OneHotEncoder drop='if_binary': index (0-based) of the dropped category *)
(* of a feature with exactly two categories, -1 (None) otherwise.          *)
DropIdx(cats) == IF Len(cats) = 2 THEN 0 ELSE -1

FitState(table) ==
  LET nums(c) == { IntOf(v) : v \in ColumnValues(table, c) \ {NaN} }
      cats == [c \in NominalSet |-> SortedSeq(ColumnValues(table, c))]
  IN  [n_features  |-> Len(table.columns),
       df_columns  |-> table.columns,
       remainder   |-> { i \in DOMAIN table.columns :
                           table.columns[i] \notin SelectedSet },
       data_min_   |-> [c \in NumericSet |-> SetMin(nums(c))],
       data_max_   |-> [c \in NumericSet |-> SetMax(nums(c))],
       scale_      |-> [c \in NumericSet |-> ScaleOf(SetMin(nums(c)), SetMax(nums(c)))],
       min_        |-> [c \in NumericSet |-> MinOf(SetMin(nums(c)), SetMax(nums(c)))],
       categories_ |-> cats,
       drop_idx_   |-> [c \in NominalSet |-> DropIdx(cats[c])]]

(* MinMaxScaler takes NaN as a missing value (left out of the minimum and   *)
(* maximum, kept by transform); any other text in a numeric column cannot  *)
(* be converted to float.                                                  *)
NotNumeric(table) ==
  \E c \in NumericSet : \E v \in ColumnValues(table, c) : ~IsNum(v) /\ v # NaN

(* OneHotEncoder validates its columns with force_all_finite=True.         *)
NominalNaN(table) ==
  \E c \in NominalSet : NaN \in ColumnValues(table, c)

(* ColumnTransformer.fit(X).                                               *)
Fit(table) ==
  IF \E c \in SelectedSet : ~HasCol(table.columns, c)
    THEN Raise("ValueError: column missing")
  ELSE IF Len(table.rows) = 0
    THEN Raise("ValueError: 0 samples")
  ELSE IF NotNumeric(table)
    THEN Raise("ValueError: not numeric")
  ELSE IF NominalNaN(table)
    THEN Raise("ValueError: Input contains NaN")
  ELSE Ok(FitState(table))

(* Variant: the scaled value clipped to [0, 1].                            *)
ScaleClipped(state, c, x) ==
  LET y == RatAdd(RatMul(Rat(x, 1), state.scale_[c]), state.min_[c])
  IN  IF RatLt(y, RatZero) THEN RatZero
      ELSE IF RatLt(RatOne, y) THEN RatOne
      ELSE y

(* MinMaxScaler.transform: X * scale_ + min_ (no clipping).                *)
Scale(state, c, x) ==
  RatAdd(RatMul(Rat(x, 1), state.scale_[c]), state.min_[c])

(* OneHotEncoder.transform of one value of feature c: one indicator per    *)
(* category, less the dropped one.                                         *)
Indicators(state, c, v) ==
  LET cats == state.categories_[c]
      full == [i \in DOMAIN cats |-> IF cats[i] = v THEN RatOne ELSE RatZero]
  IN  IF state.drop_idx_[c] = 0 THEN Tail(full) ELSE full

(* Variant: remainder='passthrough', the unselected columns kept after the *)
(* transformed ones.                                                       *)
TransformRowPassthrough(state, table, r) ==
  [i \in DOMAIN numeric_cols_to_keep |->
     IF Cell(table, r, numeric_cols_to_keep[i]) = NaN THEN RatNaN
     ELSE Scale(state, numeric_cols_to_keep[i], IntOf(Cell(table, r, numeric_cols_to_keep[i])))]
  \o
  Flatten([i \in DOMAIN nominal_cols_to_keep |->
     Indicators(state, nominal_cols_to_keep[i], Cell(table, r, nominal_cols_to_keep[i]))])
  \o
  SelectSeq([i \in DOMAIN table.columns |->
               IF table.columns[i] \in SelectedSet THEN "" ELSE table.rows[r][i]],
            LAMBDA v : v # "")

(* ColumnTransformer.transform of one row: the scaled numeric columns,     *)
(* then the indicators of the nominal columns; remainder='drop'.           *)
TransformRow(state, table, r) ==
  [i \in DOMAIN numeric_cols_to_keep |->
     IF Cell(table, r, numeric_cols_to_keep[i]) = NaN THEN RatNaN
     ELSE Scale(state, numeric_cols_to_keep[i], IntOf(Cell(table, r, numeric_cols_to_keep[i])))]
  \o
  Flatten([i \in DOMAIN nominal_cols_to_keep |->
     Indicators(state, nominal_cols_to_keep[i], Cell(table, r, nominal_cols_to_keep[i]))])

UnknownCategory(state, table) ==
  \E c \in NominalSet : \E v \in ColumnValues(table, c) :
     v \notin Range(state.categories_[c])

(* Variant: handle_unknown='ignore', an unknown category encoded as all    *)
(* zeros.                                                                  *)
TransformIgnoreUnknown(state, table) ==
  IF state.n_features > Len(table.columns)
    THEN Raise("ValueError: fewer features than fitted")
  ELSE IF /\ state.remainder # {}
          /\ SubSeq(table.columns, 1, state.n_features) # state.df_columns
    THEN Raise("ValueError: column ordering")
  ELSE IF \E c \in SelectedSet : ~HasCol(table.columns, c)
    THEN Raise("ValueError: column missing")
  ELSE IF Len(table.rows) = 0
    THEN Raise("ValueError: 0 samples")
  ELSE IF NotNumeric(table)
    THEN Raise("ValueError: not numeric")
  ELSE IF NominalNaN(table)
    THEN Raise("ValueError: Input contains NaN")
  ELSE Ok([r \in DOMAIN table.rows |-> TransformRow(state, table, r)])

(* ColumnTransformer.transform(X), scikit-learn 0.23.                      *)
Transform(state, table) ==
  IF state.n_features > Len(table.columns)
    THEN Raise("ValueError: fewer features than fitted")
  ELSE IF /\ state.remainder # {}
          /\ SubSeq(table.columns, 1, state.n_features) # state.df_columns
    THEN Raise("ValueError: column ordering")
  ELSE IF \E c \in SelectedSet : ~HasCol(table.columns, c)
    THEN Raise("ValueError: column missing")
  ELSE IF Len(table.rows) = 0
    THEN Raise("ValueError: 0 samples")
  ELSE IF NotNumeric(table)
    THEN Raise("ValueError: not numeric")
  ELSE IF NominalNaN(table)
    THEN Raise("ValueError: Input contains NaN")
  ELSE IF UnknownCategory(state, table)
    THEN Raise("ValueError: unknown categories")
  ELSE Ok([r \in DOMAIN table.rows |-> TransformRow(state, table, r)])

(* Variant: fit_transform in the place of transform, the estimator refit   *)
(* on the rows it is given.                                                *)
AfterTransformRefit(state, table) ==
  IF Fit(table).kind = "ok" THEN FitState(table) ELSE state

(* transform() leaves the fitted estimator as it is.                       *)
AfterTransform(state, table) == state

(***************************************************************************)
(* CSV reading and writing (pandas).                                       *)
(***************************************************************************)
RangeIndex(n) == [i \in 1..n |-> NumText[i]]

(* pd.read_csv(file, sep=';', header=0): the first line is the header, the *)
(* other lines are the rows, the index is 0..n-1.                          *)
ReadCsv(lines) ==
  IF lines = << >> THEN Raise("EmptyDataError")
  ELSE Ok([columns |-> Head(lines),
           index   |-> RangeIndex(Len(lines) - 1),
           rows    |-> Tail(lines)])

(* pd.read_csv(text, index_col=0) (header inferred, so header=0): the      *)
(* first line is the header, and the first field of every line is the      *)
(* index, not a column.                                                    *)
ReadCsvIndexCol0(lines) ==
  IF lines = << >> THEN Raise("EmptyDataError")
  ELSE Ok([columns |-> Tail(Head(lines)),
           index   |-> [i \in 1..(Len(lines) - 1) |-> Head(lines[i + 1])],
           rows    |-> [i \in 1..(Len(lines) - 1) |-> Tail(lines[i + 1])]])

(* DataFrame.to_csv(header=True): a header line with an empty first field, *)
(* then one line per row, the row's index label first.                     *)
ToCsv(table) ==
  << << "" >> \o table.columns >> \o
  [r \in DOMAIN table.rows |-> << table.index[r] >> \o table.rows[r]]

(***************************************************************************)
(* sagemaker_preprocessing.py: the inference functions.                    *)
(***************************************************************************)
Renamed(df, names) == [df EXCEPT !.columns = names]

(* Variant: every content type read as CSV.                                *)
input_fn_AnyType(input_data, content_type) ==
  LET r == ReadCsvIndexCol0(input_data)
  IN  IF r.kind = "error" THEN r
      ELSE IF Len(r.value.columns) = Len(feature_columns_names) + 1
        THEN Ok(Renamed(r.value, feature_columns_names \o << label_column >>))
      ELSE IF Len(r.value.columns) = Len(feature_columns_names)
        THEN Ok(Renamed(r.value, feature_columns_names))
      ELSE Ok(r.value)

input_fn(input_data, content_type) ==
  IF content_type = "text/csv"
    THEN LET r == ReadCsvIndexCol0(input_data)
         IN  IF r.kind = "error" THEN r
             ELSE IF Len(r.value.columns) = Len(feature_columns_names) + 1
               THEN Ok(Renamed(r.value, feature_columns_names \o << label_column >>))
             ELSE IF Len(r.value.columns) = Len(feature_columns_names)
               THEN Ok(Renamed(r.value, feature_columns_names))
             ELSE Ok(r.value)
    ELSE Raise("ValueError: content type not supported by script")

(* np.insert(features, 0, input_data[label_column], axis=1)                *)
InsertLabels(features, input_data) ==
  [r \in DOMAIN features |->
     << Rat(IntOf(Cell(input_data, r, label_column)), 1) >> \o features[r]]

predict_fn(input_data, model) ==
  LET features == Transform(model, input_data)
  IN  IF features.kind = "error" THEN features
      ELSE IF HasCol(input_data.columns, label_column)
        THEN IF \E v \in ColumnValues(input_data, label_column) : ~IsNum(v)
               THEN Raise("ValueError: label not numeric")
               ELSE Ok(InsertLabels(features.value, input_data))
      ELSE features

NoResponse == [mimetype |-> "", instances |-> << >>, lines |-> << >>]

(* Variant: JSON as the encoding of every accept type but text/csv.        *)
output_fn_DefaultJson(prediction, accept) ==
  IF accept = "text/csv"
    THEN Ok([mimetype |-> accept, instances |-> << >>, lines |-> prediction])
    ELSE Ok([mimetype  |-> "application/json",
             instances |-> [i \in DOMAIN prediction |-> [features |-> prediction[i]]],
             lines     |-> << >>])

output_fn(prediction, accept) ==
  IF accept = "application/json"
    THEN Ok([mimetype  |-> accept,
             instances |-> [i \in DOMAIN prediction |-> [features |-> prediction[i]]],
             lines     |-> << >>])
  ELSE IF accept = "text/csv"
    THEN Ok([mimetype |-> accept, instances |-> << >>, lines |-> prediction])
  ELSE Raise("RuntimeError: accept type is not supported by this script")

(***************************************************************************)
(* Input data: small sets of student records, data files and requests.     *)
(***************************************************************************)
(* One raw record: the 32 attributes in file order, then G3.               *)
Student(age, address, Fjob, higher, G3) ==
  << "GP", "F", age, address, "GT3", "T", "4", "4", "teacher", Fjob, "course",
     "mother", "1", "2", "0", "no", "no", "no", "no", "yes", higher, "yes",
     "no", "4", "3", "2", "1", "1", "5", "0", "10", "11", G3 >>

raw_columns == feature_columns_names \o << label_column >>

(* Candidate contents of data/student-mat.csv and data/student-por.csv.    *)
MathFiles ==
  { << raw_columns, Student("15", "U", "teacher", "yes", "10"),
                    Student("18", "U", "other", "yes", "12") >>,
    << raw_columns, Student("18", "U", "teacher", "yes", "9"),
                    Student("18", "U", "teacher", "yes", "13") >> }

PortFiles ==
  { << raw_columns, Student("22", "U", "teacher", "yes", "8"),
                    Student("16", "R", "services", "no", "0") >>,
    << raw_columns, Student("18", "U", "teacher", "yes", "14"),
                    Student("18", "U", "teacher", "yes", "11") >> }

(* Lines of a file without the field of the given name.                    *)
WithoutField(lines, name) ==
  LET k == ColIndex(Head(lines), name)
  IN  [i \in DOMAIN lines |->
         SubSeq(lines[i], 1, k - 1) \o SubSeq(lines[i], k + 1, Len(lines[i]))]

(* Further contents of the two data files, read by the batch notebook: a   *)
(* file of one record; a file of no record, a record that is also in the   *)
(* other file, a file without the column school, without the column Fjob,  *)
(* and with a column of its own; two files without G3.                     *)
OtherMathFiles ==
  { << raw_columns, Student("17", "U", "teacher", "yes", "10") >> }

OtherPortFiles ==
  { << raw_columns >>,
    << raw_columns, Student("18", "U", "other", "yes", "12"),
                    Student("18", "U", "other", "yes", "12") >>,
    WithoutField(<< raw_columns, Student("22", "U", "teacher", "yes", "8"),
                                 Student("16", "R", "services", "no", "0") >>,
                 "school"),
    WithoutField(<< raw_columns, Student("22", "U", "teacher", "yes", "8"),
                                 Student("16", "R", "services", "no", "0") >>,
                 "Fjob"),
    << raw_columns \o << "note" >>,
       Student("22", "U", "teacher", "yes", "8") \o << "x" >>,
       Student("16", "R", "services", "no", "0") \o << "y" >> >> }

FilesWithoutTarget ==
  << WithoutField(<< raw_columns, Student("15", "U", "teacher", "yes", "10"),
                                  Student("18", "U", "other", "yes", "12") >>,
                  label_column),
     WithoutField(<< raw_columns, Student("22", "U", "teacher", "yes", "8"),
                                  Student("16", "R", "services", "no", "0") >>,
                  label_column) >>

(* The pairs of data files the batch notebook is run on.                   *)
BatchFiles ==
  ((MathFiles \cup OtherMathFiles) \X (PortFiles \cup OtherPortFiles))
  \cup {FilesWithoutTarget}

(* Lines of a file without the G3 field.                                   *)
Unlabelled(lines) == [i \in DOMAIN lines |-> SubSeq(lines[i], 1, Len(lines[i]) - 1)]

(* A file as DataFrame.to_csv writes it back: header and index column.     *)
Indexed(lines) ==
  [i \in DOMAIN lines |->
     << IF i = 1 THEN "" ELSE NumText[i - 1] >> \o lines[i]]

SeenRows ==
  << Student("18", "U", "teacher", "yes", "12"),
     Student("16", "U", "other", "yes", "7") >>

(* The request of the notebook's endpoint test.                            *)
payload ==
  << << "GP", " M", " 17", " R", " GT3", " T", " 3", " 4", " services",
        " health", " \"home\"", " \"mother\"", " 2", " 2", " 1", " no", " yes",
        " no", " yes", " no", " yes", " yes", " no", " 5", " 2", " 2", " 1",
        " 1", " 5", " 5", " 17", " 18" >> >>

Request(body, content_type, accept) ==
  [body |-> body, content_type |-> content_type, accept |-> accept]

RequestPool ==
  << \* the transform job over train.csv: header line and index column
    Request(Indexed(<< raw_columns >> \o SeenRows), "text/csv", "text/csv"),
    Request(Indexed(<< raw_columns >> \o SeenRows), "text/csv", "application/json"),
    \* header-less labelled rows
    Request(SeenRows, "text/csv", "application/json"),
    \* header-less unlabelled row of the endpoint test
    Request(payload, "text/csv", "application/json"),
    \* unlabelled rows under a header line and an index column
    Request(Indexed(Unlabelled(<< raw_columns >> \o SeenRows)), "text/csv", "application/json"),
    \* a category no training row holds
    Request(Indexed(<< raw_columns, Student("18", "U", "health", "yes", "12") >>),
            "text/csv", "application/json"),
    \* an age above every training age
    Request(Indexed(<< raw_columns, Student("24", "U", "teacher", "yes", "12"),
                                    Student("14", "U", "teacher", "yes", "5") >>),
            "text/csv", "text/csv"),
    \* rows of three fields
    Request(<< << "a", "b", "c" >>, << "1", "2", "3" >> >>, "text/csv", "text/csv"),
    \* a column after G3
    Request(Indexed(<< raw_columns \o << "note" >>,
                       Student("18", "U", "teacher", "yes", "12") \o << "x" >> >>),
            "text/csv", "application/json"),
    \* other encodings
    Request(<< << "{\"instances\": []}" >> >>, "application/json", "application/json"),
    Request(Indexed(<< raw_columns >> \o SeenRows), "application/x-npy", "text/csv"),
    Request(Indexed(<< raw_columns >> \o SeenRows), "text/csv", "application/x-npy") >>

NumRequests == 2
Requests == 1..NumRequests

(***************************************************************************)
(* State.                                                                  *)
(***************************************************************************)
VARIABLES
  mode,           \* "batch": the DataPreprocessing notebook; "served": the SageMaker notebook
  pc,             \* the next step of the notebook / of the serving process
  run_error,      \* the exception that stopped the notebook or a script ("" if none)
  math_file,      \* data/student-mat.csv
  port_file,      \* data/student-por.csv
  nb,             \* batch notebook: its variables
  train_file,     \* data/processed/train.csv (<< >> while unwritten)
  test_file,      \* data/processed/test.csv  (<< >> while unwritten)
  train_channel,  \* served: the entries of the preprocessing job's train channel
  artifact,       \* served: model.joblib of the preprocessing job
  preprocessed_train, \* served: the entries of the modeling job's train channel
  estimator,      \* served: what sagemaker_modeling.py fitted
  model,          \* served: the transformer the serving process holds
  req             \* served: the requests

vars == << mode, pc, run_error, math_file, port_file, nb, train_file, test_file,
           train_channel, artifact, preprocessed_train, estimator, model, req >>

NoState ==
  [n_features |-> 0, df_columns |-> << >>, remainder |-> {},
   data_min_ |-> << >>, data_max_ |-> << >>, scale_ |-> << >>, min_ |-> << >>,
   categories_ |-> << >>, drop_idx_ |-> << >>]

Unfitted == [fitted |-> FALSE, state |-> NoState]
Fitted(state) == [fitted |-> TRUE, state |-> state]

(* train_idx and test_idx are the row positions train_test_split draws.    *)
NewNotebook ==
  [math_data |-> EmptyTable, port_data |-> EmptyTable, df |-> EmptyTable,
   X |-> EmptyTable, y |-> << >>,
   train_idx |-> << >>, test_idx |-> << >>,
   X_train |-> EmptyTable, X_test |-> EmptyTable, y_train |-> << >>, y_test |-> << >>,
   ct |-> Unfitted,
   X_train_processed |-> << >>, X_test_processed |-> << >>,
   transformed_col_names |-> << >>,
   train_df |-> EmptyTable, test_df |-> EmptyTable]

NewRequest ==
  [pc |-> "idle", body |-> << >>, content_type |-> "", accept |-> "",
   df |-> EmptyTable, prediction |-> << >>, response |-> NoResponse,
   failed_in |-> "", error |-> ""]

(* The RandomForestRegressor of sagemaker_modeling.py: the examples it was *)
(* fitted on.                                                              *)
NoEstimator == [fitted |-> FALSE, X |-> << >>, y |-> << >>]

Init ==
  /\ mode \in {"batch", "served"}
  /\ pc = IF mode = "batch" THEN "read" ELSE "upload"
  /\ run_error = ""
  /\ \E files \in IF mode = "batch" THEN BatchFiles ELSE MathFiles \X PortFiles :
       /\ math_file = files[1]
       /\ port_file = files[2]
  /\ nb = NewNotebook
  /\ train_file = << >>
  /\ test_file = << >>
  /\ train_channel = << >>
  /\ artifact = Unfitted
  /\ preprocessed_train = << >>
  /\ estimator = NoEstimator
  /\ model = Unfitted
  /\ req = [r \in Requests |-> NewRequest]

(***************************************************************************)
(* Batch mode: the cells of the DataPreprocessing notebook, in order.  A   *)
(* cell that raises stops the run.                                         *)
(***************************************************************************)
servedVars == << train_channel, artifact, preprocessed_train, estimator, model, req >>
fileVars == << math_file, port_file >>

(* df.loc[:, df.columns != name]                                           *)
DropCol(table, name) ==
  LET keep == { i \in DOMAIN table.columns : table.columns[i] # name }
      pick(s) == [k \in 1..Cardinality(keep) |->
                    s[CHOOSE i \in keep : Cardinality({ j \in keep : j < i }) = k - 1]]
  IN  [columns |-> pick(table.columns), index |-> table.index,
       rows |-> [r \in DOMAIN table.rows |-> pick(table.rows[r])]]

(* table.iloc[idx]                                                         *)
TakeRows(table, idx) ==
  [columns |-> table.columns,
   index |-> [k \in DOMAIN idx |-> table.index[idx[k]]],
   rows |-> [k \in DOMAIN idx |-> table.rows[idx[k]]]]

Shuffles(n) ==
  { p \in [1..n -> 1..n] : \A i, j \in 1..n : p[i] = p[j] => i = j }

(* Variant: the test size rounded down.                                    *)
NTestFloor(n) == n \div 10

(* ceil(TEST_SIZE * n) with TEST_SIZE = 0.1                                *)
NTest(n) == (n + 9) \div 10

(* _validate_shuffle_split: n_test = ceil(test_size * n_samples), n_train  *)
(* the other rows; an empty train set is an error.                         *)
ValidateShuffleSplit(n_samples) ==
  LET n_test  == NTest(n_samples)
      n_train == n_samples - n_test
  IN  IF n_train = 0
        THEN Raise("ValueError: the resulting train set will be empty")
        ELSE Ok([n_train |-> n_train, n_test |-> n_test])

ReadData ==
  /\ mode = "batch" /\ pc = "read"
  /\ LET m == ReadCsv(math_file)
         p == ReadCsv(port_file)
     IN  IF m.kind = "error" \/ p.kind = "error"
           THEN /\ pc' = "failed" /\ nb' = nb
                /\ run_error' = IF m.kind = "error" THEN m.error ELSE p.error
           ELSE /\ nb' = [nb EXCEPT !.math_data = m.value, !.port_data = p.value]
                /\ pc' = "concat"
                /\ run_error' = run_error
  /\ UNCHANGED << mode, fileVars, train_file, test_file, servedVars >>

ConcatData ==
  /\ mode = "batch" /\ pc = "concat"
  /\ nb' = [nb EXCEPT !.df = Concat(nb.math_data, nb.port_data)]
  /\ pc' = "xy"
  /\ UNCHANGED << mode, run_error, fileVars, train_file, test_file, servedVars >>

(* X = df.loc[:, df.columns != 'G3'];  y = df['G3'] (KeyError without G3)  *)
SelectXy ==
  /\ mode = "batch" /\ pc = "xy"
  /\ IF HasCol(nb.df.columns, label_column)
       THEN /\ nb' = [nb EXCEPT
                        !.X = DropCol(nb.df, label_column),
                        !.y = [r \in DOMAIN nb.df.rows |-> Cell(nb.df, r, label_column)]]
            /\ pc' = "split"
            /\ run_error' = run_error
       ELSE /\ nb' = [nb EXCEPT !.X = DropCol(nb.df, label_column)]
            /\ pc' = "failed"
            /\ run_error' = "KeyError: 'G3'"
  /\ UNCHANGED << mode, fileVars, train_file, test_file, servedVars >>

(* train_test_split(X, y, test_size=0.1, random_state=12, shuffle=True):   *)
(* the first n_test entries of a permutation of the rows are the test      *)
(* partition, the others the train partition.  The permutation is the one  *)
(* the seeded generator gives; any permutation is allowed for here.        *)
TrainTestSplit ==
  /\ mode = "batch" /\ pc = "split"
  /\ LET n == Len(nb.X.rows)
         sizes == ValidateShuffleSplit(n)
     IN  IF sizes.kind = "error"
           THEN pc' = "failed" /\ nb' = nb /\ run_error' = sizes.error
           ELSE \E perm \in Shuffles(n) :
                  LET test  == SubSeq(perm, 1, sizes.value.n_test)
                      train == SubSeq(perm, sizes.value.n_test + 1, n)
                  IN  /\ nb' = [nb EXCEPT
                                  !.train_idx = train,
                                  !.test_idx  = test,
                                  !.X_train = TakeRows(nb.X, train),
                                  !.X_test  = TakeRows(nb.X, test),
                                  !.y_train = [k \in DOMAIN train |-> nb.y[train[k]]],
                                  !.y_test  = [k \in DOMAIN test |-> nb.y[test[k]]]]
                      /\ pc' = "fit"
                      /\ run_error' = run_error
  /\ UNCHANGED << mode, fileVars, train_file, test_file, servedVars >>

(* Variant: the transformer fit on every row, test partition included.     *)
FitTransformAllRows ==
  /\ mode = "batch" /\ pc = "fit"
  /\ LET f == Fit(nb.X)
     IN  IF f.kind = "error"
           THEN pc' = "failed" /\ nb' = nb /\ run_error' = f.error
           ELSE LET t == Transform(f.value, nb.X_train)
                IN  IF t.kind = "error"
                      THEN /\ pc' = "failed"
                           /\ run_error' = t.error
                           /\ nb' = [nb EXCEPT !.ct = Fitted(f.value)]
                      ELSE /\ pc' = "transform"
                           /\ run_error' = run_error
                           /\ nb' = [nb EXCEPT
                                       !.ct = Fitted(AfterTransform(f.value, nb.X_train)),
                                       !.X_train_processed = t.value]
  /\ UNCHANGED << mode, fileVars, train_file, test_file, servedVars >>

(* X_train_processed = ct.fit_transform(X_train)                           *)
FitTransformTrain ==
  /\ mode = "batch" /\ pc = "fit"
  /\ LET f == Fit(nb.X_train)
     IN  IF f.kind = "error"
           THEN pc' = "failed" /\ nb' = nb /\ run_error' = f.error
           ELSE LET t == Transform(f.value, nb.X_train)
                IN  IF t.kind = "error"
                      THEN /\ pc' = "failed"
                           /\ run_error' = t.error
                           /\ nb' = [nb EXCEPT !.ct = Fitted(f.value)]
                      ELSE /\ pc' = "transform"
                           /\ run_error' = run_error
                           /\ nb' = [nb EXCEPT
                                       !.ct = Fitted(AfterTransform(f.value, nb.X_train)),
                                       !.X_train_processed = t.value]
  /\ UNCHANGED << mode, fileVars, train_file, test_file, servedVars >>

(* Variant: the run goes on to the next cell after ct.transform raised.    *)
TransformTestGoOn ==
  /\ mode = "batch" /\ pc = "transform"
  /\ LET t == Transform(nb.ct.state, nb.X_test)
     IN  /\ pc' = "frames"
         /\ run_error' = IF t.kind = "error" THEN t.error ELSE run_error
         /\ nb' = [nb EXCEPT
                     !.ct = Fitted(AfterTransform(nb.ct.state, nb.X_test)),
                     !.X_test_processed = t.value]
  /\ UNCHANGED << mode, fileVars, train_file, test_file, servedVars >>

(* X_test_processed = ct.transform(X_test)                                 *)
TransformTest ==
  /\ mode = "batch" /\ pc = "transform"
  /\ LET t == Transform(nb.ct.state, nb.X_test)
     IN  IF t.kind = "error"
           THEN /\ pc' = "failed"
                /\ run_error' = t.error
                /\ nb' = [nb EXCEPT !.ct = Fitted(AfterTransform(nb.ct.state, nb.X_test))]
           ELSE /\ pc' = "frames"
                /\ run_error' = run_error
                /\ nb' = [nb EXCEPT
                            !.ct = Fitted(AfterTransform(nb.ct.state, nb.X_test)),
                            !.X_test_processed = t.value]
  /\ UNCHANGED << mode, fileVars, train_file, test_file, servedVars >>

(* OneHotEncoder.get_feature_names: <<column, category>> for every         *)
(* indicator column; a numeric column keeps its name, <<column>>.          *)
FeatureNames(state) ==
  [i \in DOMAIN numeric_cols_to_keep |-> << numeric_cols_to_keep[i] >>]
  \o
  Flatten([i \in DOMAIN nominal_cols_to_keep |->
     LET c    == nominal_cols_to_keep[i]
         cats == state.categories_[c]
         all  == [k \in DOMAIN cats |-> << c, cats[k] >>]
     IN  IF state.drop_idx_[c] = 0 THEN Tail(all) ELSE all])

(* Variant: the labels attached in the reverse order.                      *)
FrameReversed(processed, names, labels) ==
  [columns |-> names \o << << label_column >> >>,
   index   |-> RangeIndex(Len(processed)),
   rows    |-> [r \in DOMAIN processed |->
                  processed[r] \o << labels[Len(labels) + 1 - r] >>]]

(* pd.DataFrame(processed, columns=names); frame['G3'] = np.array(labels)  *)
Frame(processed, names, labels) ==
  [columns |-> names \o << << label_column >> >>,
   index   |-> RangeIndex(Len(processed)),
   rows    |-> [r \in DOMAIN processed |-> processed[r] \o << labels[r] >>]]

BuildFrames ==
  /\ mode = "batch" /\ pc = "frames"
  /\ LET names == FeatureNames(nb.ct.state)
     IN  nb' = [nb EXCEPT
                  !.transformed_col_names = names,
                  !.train_df = Frame(nb.X_train_processed, names, nb.y_train),
                  !.test_df  = Frame(nb.X_test_processed, names, nb.y_test)]
  /\ pc' = "write"
  /\ UNCHANGED << mode, run_error, fileVars, train_file, test_file, servedVars >>

WriteFiles ==
  /\ mode = "batch" /\ pc = "write"
  /\ train_file' = ToCsv(nb.train_df)
  /\ test_file' = ToCsv(nb.test_df)
  /\ pc' = "done"
  /\ UNCHANGED << mode, run_error, fileVars, nb, servedVars >>

(***************************************************************************)
(* Served mode: the SageMaker notebook, sagemaker_preprocessing.py and     *)
(* sagemaker_modeling.py.                                                  *)
(***************************************************************************)
batchVars == << nb, train_file, test_file >>

RECURSIVE ConcatAll(_)
ConcatAll(tables) ==
  IF Len(tables) = 1 THEN Head(tables)
  ELSE Concat(Head(tables), ConcatAll(Tail(tables)))

(* An entry of a channel directory: a file with its lines, or a            *)
(* sub-directory with its files.                                           *)
File(lines) == [isdir |-> FALSE, lines |-> lines, files |-> << >>]
Dir(files) == [isdir |-> TRUE, lines |-> << >>, files |-> files]

(* What a job may find in its train channel when the data is the file f:   *)
(* the file, nothing, or an empty sub-directory.                           *)
Channels(f) ==
  { << File(f) >>, << >>, << Dir(<< >>) >> }

NoFiles ==
  "ValueError: There are no files in the train channel"

(* The notebook writes the concatenation of the two data files, G3         *)
(* included, to data/train.csv and uploads it as the training channel.     *)
UploadTrain ==
  /\ mode = "served" /\ pc = "upload"
  /\ LET m == ReadCsv(math_file)
         p == ReadCsv(port_file)
     IN  IF m.kind = "error" \/ p.kind = "error"
           THEN /\ pc' = "failed" /\ train_channel' = train_channel
                /\ run_error' = IF m.kind = "error" THEN m.error ELSE p.error
           ELSE /\ train_channel' \in Channels(ToCsv(Concat(m.value, p.value)))
                /\ pc' = "fit"
                /\ run_error' = run_error
  /\ UNCHANGED << mode, fileVars, batchVars, artifact, preprocessed_train,
                  estimator, model, req >>

(* pd.read_csv(file, header=0, index_col=0) of a channel entry.            *)
ReadEntry(entry) ==
  IF entry.isdir THEN Raise("IsADirectoryError") ELSE ReadCsvIndexCol0(entry.lines)

(* sagemaker_preprocessing.py __main__: read every entry of the training   *)
(* channel, concatenate, fit the preprocessor, dump it.                    *)
PreprocessMain ==
  /\ mode = "served" /\ pc = "fit"
  /\ IF Len(train_channel) = 0
       THEN pc' = "failed" /\ artifact' = artifact /\ run_error' = NoFiles
       ELSE LET raw_data == [i \in DOMAIN train_channel |-> ReadEntry(train_channel[i])]
            IN  IF \E i \in DOMAIN raw_data : raw_data[i].kind = "error"
                  THEN /\ pc' = "failed" /\ artifact' = artifact
                       /\ run_error' =
                            raw_data[CHOOSE i \in DOMAIN raw_data :
                                       /\ raw_data[i].kind = "error"
                                       /\ \A j \in 1..(i - 1) : raw_data[j].kind = "ok"].error
                  ELSE LET concat_data == ConcatAll([i \in DOMAIN raw_data |-> raw_data[i].value])
                           f == Fit(concat_data)
                       IN  IF f.kind = "error"
                             THEN pc' = "failed" /\ artifact' = artifact /\ run_error' = f.error
                             ELSE /\ pc' = "transform_job"
                                  /\ artifact' = Fitted(f.value)
                                  /\ run_error' = run_error
  /\ UNCHANGED << mode, fileVars, batchVars, train_channel, preprocessed_train,
                  estimator, model, req >>

(* transformer.transform(train_input, content_type='text/csv') with accept *)
(* 'text/csv': the transform job's container loads model.joblib and passes *)
(* the uploaded train.csv through input_fn, predict_fn and output_fn; the  *)
(* response is the job's output, the train channel of the modeling job.    *)
TransformJob ==
  /\ mode = "served" /\ pc = "transform_job"
  /\ LET i == input_fn(train_channel[1].lines, "text/csv")
         p == predict_fn(i.value, artifact.state)
         o == output_fn(p.value, "text/csv")
     IN  IF i.kind = "error" \/ p.kind = "error" \/ o.kind = "error"
           THEN /\ pc' = "failed"
                /\ preprocessed_train' = preprocessed_train
                /\ run_error' = IF i.kind = "error" THEN i.error
                                ELSE IF p.kind = "error" THEN p.error ELSE o.error
           ELSE /\ pc' = "modeling"
                /\ preprocessed_train' \in Channels(o.value.lines)
                /\ run_error' = run_error
  /\ UNCHANGED << mode, fileVars, batchVars, train_channel, artifact, estimator,
                  model, req >>

(* sagemaker_modeling.py: the files of the train channel, those of its     *)
(* sub-directories included.                                               *)
InputFiles(train_dir) ==
  Flatten([k \in DOMAIN train_dir |->
             IF train_dir[k].isdir THEN train_dir[k].files
             ELSE << train_dir[k].lines >>])

(* pd.read_csv(file): the header is inferred, the first line gives the     *)
(* column names.                                                           *)
ReadExamples(lines) == ReadCsv(lines)

(* sagemaker_modeling.py __main__: list the train channel, read every      *)
(* file, concatenate, take the first column as target and the others as    *)
(* features, fit the regressor and dump it.                                *)
ModelingMain ==
  /\ mode = "served" /\ pc = "modeling"
  /\ IF Len(preprocessed_train) = 0
       THEN pc' = "failed" /\ estimator' = estimator /\ run_error' = NoFiles
       ELSE LET input_files == InputFiles(preprocessed_train)
                raw_data == [k \in DOMAIN input_files |-> ReadExamples(input_files[k])]
            IN  IF Len(input_files) = 0
                  THEN /\ pc' = "failed" /\ estimator' = estimator
                       /\ run_error' = "ValueError: No objects to concatenate"
                ELSE IF \E k \in DOMAIN raw_data : raw_data[k].kind = "error"
                  THEN /\ pc' = "failed" /\ estimator' = estimator
                       /\ run_error' = "EmptyDataError"
                ELSE LET concat_data == ConcatAll([k \in DOMAIN raw_data |-> raw_data[k].value])
                         X == [r \in DOMAIN concat_data.rows |-> Tail(concat_data.rows[r])]
                         y == [r \in DOMAIN concat_data.rows |-> Head(concat_data.rows[r])]
                     IN  IF Len(concat_data.rows) = 0
                           THEN /\ pc' = "failed" /\ estimator' = estimator
                                /\ run_error' = "ValueError: 0 samples"
                           ELSE /\ pc' = "load"
                                /\ estimator' = [fitted |-> TRUE, X |-> X, y |-> y]
                                /\ run_error' = run_error
  /\ UNCHANGED << mode, fileVars, batchVars, train_channel, artifact,
                  preprocessed_train, model, req >>

(* model_fn: joblib.load of model.joblib.  The hosting layer calls it once *)
(* when the serving process starts, before it hands any request to         *)
(* input_fn.                                                               *)
ModelFn ==
  /\ mode = "served" /\ pc = "load"
  /\ model' = artifact
  /\ pc' = "serving"
  /\ UNCHANGED << mode, run_error, fileVars, batchVars, train_channel, artifact,
                  preprocessed_train, estimator, req >>

(* A request reaches the serving process.  Requests are interchangeable, *)
(* so the slots hold them in the order of RequestPool; they arrive in any  *)
(* order.                                                                  *)
PoolIndex(q) ==
  CHOOSE k \in DOMAIN RequestPool :
    /\ RequestPool[k].body = q.body
    /\ RequestPool[k].content_type = q.content_type
    /\ RequestPool[k].accept = q.accept

servingVars ==
  << mode, pc, run_error, fileVars, batchVars, train_channel, artifact,
     preprocessed_train, estimator >>

Receive(r) ==
  /\ mode = "served" /\ pc \in {"load", "serving"}
  /\ req[r].pc = "idle"
  /\ \E k \in DOMAIN RequestPool :
       /\ \A o \in Requests :
            req[o].pc # "idle" =>
              /\ o < r => PoolIndex(req[o]) <= k
              /\ o > r => k <= PoolIndex(req[o])
       /\ req' = [req EXCEPT ![r] =
                    [NewRequest EXCEPT !.pc = "input_fn",
                                       !.body = RequestPool[k].body,
                                       !.content_type = RequestPool[k].content_type,
                                       !.accept = RequestPool[k].accept]]
  /\ UNCHANGED << servingVars, model >>

(* An exception in one of the functions ends the request with an error    *)
(* response.                                                               *)
Fail(r, fn, e) ==
  req' = [req EXCEPT ![r].pc = "failed", ![r].failed_in = fn, ![r].error = e]

InputFn(r) ==
  /\ mode = "served" /\ pc = "serving" /\ model.fitted
  /\ req[r].pc = "input_fn"
  /\ LET res == input_fn(req[r].body, req[r].content_type)
     IN  IF res.kind = "error" THEN Fail(r, "input_fn", res.error)
         ELSE req' = [req EXCEPT ![r].pc = "predict_fn", ![r].df = res.value]
  /\ UNCHANGED << servingVars, model >>

PredictFn(r) ==
  /\ mode = "served" /\ pc = "serving" /\ model.fitted
  /\ req[r].pc = "predict_fn"
  /\ LET res == predict_fn(req[r].df, model.state)
     IN  IF res.kind = "error" THEN Fail(r, "predict_fn", res.error)
         ELSE req' = [req EXCEPT ![r].pc = "output_fn", ![r].prediction = res.value]
  /\ model' = Fitted(AfterTransform(model.state, req[r].df))
  /\ UNCHANGED servingVars

OutputFn(r) ==
  /\ mode = "served" /\ pc = "serving" /\ model.fitted
  /\ req[r].pc = "output_fn"
  /\ LET res == output_fn(req[r].prediction, req[r].accept)
     IN  IF res.kind = "error" THEN Fail(r, "output_fn", res.error)
         ELSE req' = [req EXCEPT ![r].pc = "responded", ![r].response = res.value]
  /\ UNCHANGED << servingVars, model >>

Next ==
  \/ ReadData
  \/ ConcatData
  \/ SelectXy
  \/ TrainTestSplit
  \/ FitTransformTrain
  \/ TransformTest
  \/ BuildFrames
  \/ WriteFiles
  \/ UploadTrain
  \/ PreprocessMain
  \/ TransformJob
  \/ ModelingMain
  \/ ModelFn
  \/ \E r \in Requests : Receive(r)
  \/ \E r \in Requests : InputFn(r)
  \/ \E r \in Requests : PredictFn(r)
  \/ \E r \in Requests : OutputFn(r)

Spec == Init /\ [][Next]_vars

(***************************************************************************)
(* Properties.                                                             *)
(***************************************************************************)
(* input_fn has run for request r.                                         *)
InputRan(r) == req[r].pc \notin {"idle", "input_fn"}

(* predict_fn has run for request r.                                       *)
PredictRan(r) ==
  \/ req[r].pc \in {"output_fn", "responded"}
  \/ req[r].pc = "failed" /\ req[r].failed_in \in {"predict_fn", "output_fn"}

(* predict_fn has returned a prediction for request r.                     *)
PredictReturned(r) ==
  \/ req[r].pc \in {"output_fn", "responded"}
  \/ req[r].pc = "failed" /\ req[r].failed_in = "output_fn"

(* TransformTest has run.                                                  *)
TestTransformRan ==
  mode = "batch" /\ nb.ct.fitted /\ pc \in {"failed", "frames", "write", "done"}

(* Some row of the table holds, in a nominal column, a value the fit did   *)
(* not see.                                                                *)
HoldsUnseen(state, table) ==
  \E c \in NominalSet :
    /\ HasCol(table.columns, c)
    /\ \E v \in ColumnValues(table, c) : v \notin Range(state.categories_[c])

(* C1: a row set holding, in a nominal column, a value not present at fit  *)
(* time makes the transform fail: no output row, no response, no file, in  *)
(* served mode (predict_fn) and in batch mode (the test partition).        *)
C1_UnseenCategoryRejected ==
  /\ \A r \in Requests :
       (PredictRan(r) /\ HoldsUnseen(model.state, req[r].df)) =>
          /\ req[r].pc = "failed"
          /\ req[r].failed_in = "predict_fn"
          /\ req[r].prediction = << >>
          /\ req[r].response = NoResponse
  /\ (TestTransformRan /\ HoldsUnseen(nb.ct.state, nb.X_test)) =>
          /\ pc = "failed"
          /\ nb.X_test_processed = << >>
          /\ train_file = << >>
          /\ test_file = << >>

C1_Witness ==
  \E r \in Requests :
    /\ req[r].pc = "failed"
    /\ req[r].error = "ValueError: unknown categories"
    /\ Len(req[r].df.columns) = Len(feature_columns_names) + 1
    /\ HoldsUnseen(model.state, req[r].df)

(* Two requests whose parsed tables are equal have the same outcome of     *)
(* predict_fn.                                                             *)
SameInputSameOutput ==
  \A r1, r2 \in Requests :
    (PredictRan(r1) /\ PredictRan(r2) /\ req[r1].df = req[r2].df) =>
       /\ req[r1].prediction = req[r2].prediction
       /\ PredictReturned(r1) = PredictReturned(r2)

(* A step leaves a fitted transformer (the notebook's ct, model.joblib,    *)
(* the loaded model) as it is.                                             *)
FittedStateKept ==
  /\ nb.ct.fitted => nb'.ct = nb.ct
  /\ artifact.fitted => artifact' = artifact
  /\ model.fitted => model' = model

(* C2: the transformer is fit once; no later transform call, failing or    *)
(* not, changes the fitted state, and equal inputs give equal outputs.     *)
C2_FitOnceTransformPure == [](SameInputSameOutput) /\ [][FittedStateKept]_vars

C2_Witness ==
  \E r1, r2 \in Requests :
    /\ r1 # r2
    /\ PredictReturned(r1) /\ PredictReturned(r2)
    /\ req[r1].df = req[r2].df
    /\ req[r1].prediction = req[r2].prediction
    /\ req[r1].prediction # << >>
    /\ model = artifact

(* What a request gets when it is served alone by a process holding the    *)
(* persisted transformer.                                                  *)
ServedAlone(state, q) ==
  LET i == input_fn(q.body, q.content_type)
      p == predict_fn(i.value, state)
      o == output_fn(p.value, q.accept)
      out(fn, e, resp) == [failed_in |-> fn, error |-> e, response |-> resp]
  IN  IF i.kind = "error" THEN out("input_fn", i.error, NoResponse)
      ELSE IF p.kind = "error" THEN out("predict_fn", p.error, NoResponse)
      ELSE IF o.kind = "error" THEN out("output_fn", o.error, NoResponse)
      ELSE out("", "", o.value)

Outcome(r) ==
  [failed_in |-> req[r].failed_in, error |-> req[r].error, response |-> req[r].response]

(* C3: under every interleaving of the requests' steps, no request is      *)
(* handed to input_fn before model_fn has loaded the transformer, the      *)
(* loaded transformer stays equal to the persisted one, and every finished *)
(* request has the outcome it has when served alone.                       *)
C3_ConcurrentRequestsIndependent ==
  /\ \A r \in Requests : InputRan(r) => model.fitted
  /\ model.fitted => model = artifact
  /\ \A r \in Requests :
       req[r].pc \in {"responded", "failed"} =>
          Outcome(r) = ServedAlone(artifact.state, req[r])

C3_Witness ==
  \E r1, r2 \in Requests :
    /\ req[r1].pc = "responded"
    /\ req[r2].pc = "output_fn"
    /\ req[r1].body # req[r2].body

(* The number of fields of the lines of a request body.                    *)
BodyWidth(body) == Len(body[1])

(* No line of the body is a header: none holds a column name.              *)
HeaderLess(body) ==
  \A i \in DOMAIN body : Range(body[i]) \cap Range(raw_columns) = {}

(* C4: input_fn tells labelled from unlabelled rows by the width of the    *)
(* (header-less) request rows alone: 33 fields are a labelled table whose  *)
(* last column is G3, 32 fields an unlabelled table, and any other width   *)
(* makes input_fn fail instead of returning a table.                       *)
C4_WidthDecidesLabel ==
  \A r \in Requests :
    (InputRan(r) /\ req[r].content_type = "text/csv" /\ HeaderLess(req[r].body)) =>
       LET w == BodyWidth(req[r].body)
       IN  /\ w = Len(feature_columns_names) + 1 =>
                /\ req[r].failed_in # "input_fn"
                /\ req[r].df.columns = feature_columns_names \o << label_column >>
           /\ w = Len(feature_columns_names) =>
                /\ req[r].failed_in # "input_fn"
                /\ req[r].df.columns = feature_columns_names
           /\ w \notin {Len(feature_columns_names), Len(feature_columns_names) + 1} =>
                /\ req[r].pc = "failed"
                /\ req[r].failed_in = "input_fn"

(* C5: every line of a header-less text/csv body is parsed as a data row   *)
(* with all of its fields, the transform returns one feature vector per    *)
(* line, and the one-row request of the endpoint test is answered with one *)
(* feature vector.                                                         *)
C5_EveryLineIsADataRow ==
  \A r \in Requests :
    (InputRan(r) /\ req[r].content_type = "text/csv" /\ HeaderLess(req[r].body)) =>
       /\ req[r].failed_in # "input_fn" => req[r].df.rows = req[r].body
       /\ PredictReturned(r) => Len(req[r].prediction) = Len(req[r].body)
       /\ (req[r].body = payload /\ req[r].pc \in {"responded", "failed"}) =>
             /\ req[r].pc = "responded"
             /\ Len(req[r].response.instances) = 1

(* The selected columns of the table are there and hold values the fitted  *)
(* transformer encodes.                                                    *)
Encodable(state, table) ==
  /\ \A c \in SelectedSet : HasCol(table.columns, c)
  /\ Len(table.rows) > 0
  /\ \A c \in NumericSet : \A v \in ColumnValues(table, c) : IsNum(v)
  /\ \A c \in NominalSet : \A v \in ColumnValues(table, c) :
        v \in Range(state.categories_[c])
  /\ HasCol(table.columns, label_column) =>
        \A v \in ColumnValues(table, label_column) : IsNum(v)

(* C6: predict_fn returns, for a table with the column G3, every row's     *)
(* label followed by the row's transformed features, and for a table       *)
(* without G3 the transformed features alone.                              *)
C6_LabelFirstOrFeaturesOnly ==
  \A r \in Requests :
    (PredictRan(r) /\ Encodable(model.state, req[r].df)) =>
       /\ PredictReturned(r)
       /\ req[r].prediction =
            [i \in DOMAIN req[r].df.rows |->
               IF HasCol(req[r].df.columns, label_column)
                 THEN << Rat(IntOf(Cell(req[r].df, i, label_column)), 1) >>
                      \o TransformRow(model.state, req[r].df, i)
                 ELSE TransformRow(model.state, req[r].df, i)]

(* C7: input_fn raises for every content type but text/csv, output_fn      *)
(* raises for every accept type but application/json and text/csv, and a   *)
(* request that is answered is answered in the encoding it asked for.      *)
C7_NegotiationFailsClosed ==
  \A r \in Requests :
    /\ (InputRan(r) /\ req[r].content_type # "text/csv") =>
          /\ req[r].pc = "failed"
          /\ req[r].failed_in = "input_fn"
          /\ req[r].error = "ValueError: content type not supported by script"
          /\ req[r].response = NoResponse
    /\ (PredictReturned(r) /\ req[r].pc # "output_fn"
          /\ req[r].accept \notin {"application/json", "text/csv"}) =>
          /\ req[r].pc = "failed"
          /\ req[r].failed_in = "output_fn"
          /\ req[r].error = "RuntimeError: accept type is not supported by this script"
          /\ req[r].response = NoResponse
    /\ req[r].pc = "responded" => req[r].response.mimetype = req[r].accept

C7_Witness ==
  \E r1, r2 \in Requests :
    /\ req[r1].pc = "failed" /\ req[r1].failed_in = "input_fn"
    /\ req[r1].content_type = "application/x-npy"
    /\ req[r2].pc = "failed" /\ req[r2].failed_in = "output_fn"
    /\ req[r2].accept = "application/x-npy"

Unsupported(r) ==
  /\ req[r].pc = "failed"
  /\ req[r].failed_in = "input_fn"
  /\ req[r].error = "ValueError: content type not supported by script"

TrainTransformed ==
  mode = "batch" /\ nb.ct.fitted /\ nb.X_train_processed # << >>

NumericIdx == DOMAIN numeric_cols_to_keep

(* The value of numeric column i in row r of the table.                    *)
RawValue(table, r, i) == IntOf(Cell(table, r, numeric_cols_to_keep[i]))

(* C9 as stated: in every numeric column, a constant one included, every   *)
(* transformed training value lies in [0, 1], the fit-time minimum gives 0 *)
(* and the fit-time maximum gives 1.                                       *)
C9_TrainRangeAnyColumn ==
  TrainTransformed =>
    \A i \in NumericIdx : \A r \in DOMAIN nb.X_train.rows :
      LET c   == numeric_cols_to_keep[i]
          v   == RawValue(nb.X_train, r, i)
          out == nb.X_train_processed[r][i]
      IN  /\ RatLeq(RatZero, out) /\ RatLeq(out, RatOne)
          /\ v = nb.ct.state.data_min_[c] => out = RatZero
          /\ v = nb.ct.state.data_max_[c] => out = RatOne

(* C9 amended: in a numeric column whose training values are not all equal *)
(* every transformed training value lies in [0, 1], the fit-time minimum   *)
(* gives 0 and the fit-time maximum gives 1; in a column whose training    *)
(* values are all equal every training value gives 0.                      *)
C9_TrainRange ==
  TrainTransformed =>
    \A i \in NumericIdx : \A r \in DOMAIN nb.X_train.rows :
      LET c   == numeric_cols_to_keep[i]
          v   == RawValue(nb.X_train, r, i)
          lo  == nb.ct.state.data_min_[c]
          hi  == nb.ct.state.data_max_[c]
          out == nb.X_train_processed[r][i]
      IN  IF lo < hi
            THEN /\ RatLeq(RatZero, out) /\ RatLeq(out, RatOne)
                 /\ v = lo => out = RatZero
                 /\ v = hi => out = RatOne
            ELSE out = RatZero

C9_Witness ==
  /\ TrainTransformed
  /\ nb.ct.state.data_min_["age"] < nb.ct.state.data_max_["age"]
  /\ nb.ct.state.data_min_["Medu"] = nb.ct.state.data_max_["Medu"]
  /\ \E r \in DOMAIN nb.X_train.rows :
       /\ RawValue(nb.X_train, r, 1) = nb.ct.state.data_max_["age"]
       /\ nb.X_train_processed[r][1] = RatOne
       /\ nb.X_train_processed[r][2] = RatZero

(* Row r, numeric column i, of a scaled table is (v - min) / (max - min),  *)
(* below 0 for v < min and above 1 for v > max, when min < max.            *)
Unclamped(state, table, r, i, out) ==
  LET c  == numeric_cols_to_keep[i]
      v  == RawValue(table, r, i)
      lo == state.data_min_[c]
      hi == state.data_max_[c]
  IN  lo < hi =>
        /\ out = Rat(v - lo, hi - lo)
        /\ v < lo => RatLt(out, RatZero)
        /\ v > hi => RatLt(RatOne, out)

(* The position of numeric column i in a row predict_fn returns.           *)
FeaturePos(table, i) == IF HasCol(table.columns, label_column) THEN i + 1 ELSE i

(* C10: scaling is not clamped, for the test partition in batch mode and   *)
(* for the rows of a request in served mode.                               *)
C10_ScalingNotClamped ==
  /\ (mode = "batch" /\ nb.X_test_processed # << >>) =>
        \A i \in NumericIdx : \A r \in DOMAIN nb.X_test.rows :
          Unclamped(nb.ct.state, nb.X_test, r, i, nb.X_test_processed[r][i])
  /\ \A q \in Requests :
        PredictReturned(q) =>
          \A i \in NumericIdx : \A r \in DOMAIN req[q].df.rows :
            Unclamped(model.state, req[q].df, r, i,
                      req[q].prediction[r][FeaturePos(req[q].df, i)])

C10_Witness ==
  \E q \in Requests :
    /\ req[q].pc = "responded"
    /\ model.state.data_min_["age"] < model.state.data_max_["age"]
    /\ \E r \in DOMAIN req[q].df.rows :
         /\ RawValue(req[q].df, r, 1) > model.state.data_max_["age"]
         /\ RatLt(RatOne, req[q].prediction[r][FeaturePos(req[q].df, 1)])
    /\ \E r \in DOMAIN req[q].df.rows :
         /\ RawValue(req[q].df, r, 1) < model.state.data_min_["age"]
         /\ RatLt(req[q].prediction[r][FeaturePos(req[q].df, 1)], RatZero)

(* The columns of a header that are indicators of nominal column c.        *)
IndicatorNames(header, c) ==
  { i \in DOMAIN header : Len(header[i]) = 2 /\ header[i][1] = c }

(* The number of indicator columns of a nominal column with k categories.  *)
IndicatorCount(k) == IF k > 2 THEN k ELSE 1

RECURSIVE SumSeq(_)
SumSeq(q) == IF q = << >> THEN 0 ELSE Head(q) + SumSeq(Tail(q))

(* The width of a transformed row when the rows used for fit are those of  *)
(* the table.                                                              *)
OutputWidth(table) ==
  Len(numeric_cols_to_keep) +
  SumSeq([i \in DOMAIN nominal_cols_to_keep |->
            IndicatorCount(Cardinality(ColumnValues(table, nominal_cols_to_keep[i])))])

(* The rows the preprocessing job is fit on: those of the two data files.  *)
ServedFitRows ==
  [columns |-> raw_columns, index |-> << >>,
   rows |-> Tail(math_file) \o Tail(port_file)]

(* C11: a nominal column with k distinct categories in the rows used for   *)
(* fit gives k indicator columns when k > 2 and one indicator column       *)
(* otherwise (k = 2 and k = 1), in the written tables of batch mode and in *)
(* the rows predict_fn returns.                                            *)
C11_IndicatorColumns ==
  /\ (mode = "batch" /\ pc = "done") =>
        /\ \A c \in NominalSet :
             Cardinality(IndicatorNames(Tail(Head(train_file)), c)) =
               IndicatorCount(Cardinality(ColumnValues(nb.X_train, c)))
        /\ Head(train_file) = Head(test_file)
        /\ \A i \in DOMAIN nb.X_train_processed :
             Len(nb.X_train_processed[i]) = OutputWidth(nb.X_train)
        /\ \A i \in DOMAIN nb.X_test_processed :
             Len(nb.X_test_processed[i]) = OutputWidth(nb.X_train)
  /\ \A r \in Requests :
        PredictReturned(r) =>
          \A i \in DOMAIN req[r].prediction :
            Len(req[r].prediction[i]) =
              OutputWidth(ServedFitRows) +
              (IF HasCol(req[r].df.columns, label_column) THEN 1 ELSE 0)

C11_Witness ==
  /\ mode = "batch" /\ pc = "done"
  /\ Cardinality(ColumnValues(nb.X_train, "Fjob")) = 3
  /\ Cardinality(IndicatorNames(Tail(Head(train_file)), "Fjob")) = 3
  /\ Cardinality(ColumnValues(nb.X_train, "address")) = 2
  /\ Cardinality(IndicatorNames(Tail(Head(train_file)), "address")) = 1
  /\ Cardinality(ColumnValues(nb.X_train, "guardian")) = 1
  /\ Cardinality(IndicatorNames(Tail(Head(train_file)), "guardian")) = 1

(* train_test_split has returned the two partitions.                       *)
SplitDone == mode = "batch" /\ nb.train_idx # << >>

(* The largest table the split sizes are computed for.                     *)
MaxSamples == 1044

(* C12: the split is a partition of the concatenated table (rows of the    *)
(* first file, then rows of the second, duplicates kept): every row        *)
(* position is in exactly one partition, every partition row is the row at *)
(* its position with that row's own G3, the test partition has             *)
(* ceil(0.1 * n) rows and the train partition the others; the sizes the    *)
(* split computes are these for every table of 2 to MaxSamples rows (105   *)
(* and 939 of 1044).                                                       *)
C12_SplitIsPartition ==
  /\ SplitDone =>
       LET n == Len(nb.df.rows)
           t == Len(nb.test_idx)
       IN  /\ n = Len(nb.math_data.rows) + Len(nb.port_data.rows)
           /\ nb.math_data.columns = nb.port_data.columns =>
                 nb.df.rows = nb.math_data.rows \o nb.port_data.rows
           /\ Range(nb.X.columns) = Range(nb.df.columns) \ {label_column}
           /\ nb.X_train.columns = nb.X.columns /\ nb.X_test.columns = nb.X.columns
           /\ Range(nb.train_idx) \cup Range(nb.test_idx) = 1..n
           /\ Range(nb.train_idx) \cap Range(nb.test_idx) = {}
           /\ Len(nb.train_idx) + t = n
           /\ 10 * t >= n /\ 10 * (t - 1) < n
           /\ Len(nb.X_train.rows) = n - t /\ Len(nb.y_train) = n - t
           /\ Len(nb.X_test.rows) = t /\ Len(nb.y_test) = t
           /\ \A k \in DOMAIN nb.train_idx :
                 /\ \A c \in Range(nb.X.columns) :
                      Cell(nb.X_train, k, c) = Cell(nb.df, nb.train_idx[k], c)
                 /\ nb.y_train[k] = Cell(nb.df, nb.train_idx[k], label_column)
           /\ \A k \in DOMAIN nb.test_idx :
                 /\ \A c \in Range(nb.X.columns) :
                      Cell(nb.X_test, k, c) = Cell(nb.df, nb.test_idx[k], c)
                 /\ nb.y_test[k] = Cell(nb.df, nb.test_idx[k], label_column)
  /\ (mode = "batch" /\ pc = "split") =>
       /\ \A n \in 2..MaxSamples :
            LET sizes == ValidateShuffleSplit(n)
            IN  /\ sizes.kind = "ok"
                /\ 10 * sizes.value.n_test >= n /\ 10 * (sizes.value.n_test - 1) < n
                /\ sizes.value.n_train = n - sizes.value.n_test
       /\ ValidateShuffleSplit(1044).value = [n_train |-> 939, n_test |-> 105]

C12_Witness ==
  /\ SplitDone
  /\ Len(nb.df.rows) = 4
  /\ \E i, j \in DOMAIN nb.df.rows : i # j /\ nb.df.rows[i] = nb.df.rows[j]
  /\ \E i, j \in DOMAIN nb.df.index : i # j /\ nb.df.index[i] = nb.df.index[j]
  /\ Len(nb.test_idx) = 1
  /\ nb.y_test[1] # nb.y_train[1]

(* The place of a step of the batch notebook in its order: read,           *)
(* concatenate, split (X/y, then train_test_split), fit and transform of   *)
(* the training partition, transform of the test partition, write (the     *)
(* two frames, then the two files).                                        *)
BatchRank(p) ==
  CASE p = "read"      -> 0
    [] p = "concat"    -> 1
    [] p = "xy"        -> 2
    [] p = "split"     -> 3
    [] p = "fit"       -> 4
    [] p = "transform" -> 5
    [] p = "frames"    -> 6
    [] p = "write"     -> 7
    [] p = "done"      -> 8
    [] OTHER           -> 9

(* A step of the batch run is the next step of the order, or the failure   *)
(* that ends the run.                                                      *)
NextStepOrAbort ==
  mode = "batch" =>
    /\ pc \notin {"failed", "done"}
    /\ pc' = "failed" \/ BatchRank(pc') = BatchRank(pc) + 1

(* The results of a step exist only once the steps before it have given    *)
(* theirs, and the files only at the end of a run that met no error.       *)
NoPartialOutput ==
  mode = "batch" =>
    /\ nb.df # EmptyTable => BatchRank(pc) >= 2
    /\ SplitDone => (nb.df # EmptyTable /\ HasCol(nb.df.columns, label_column))
    /\ nb.ct.fitted => SplitDone
    /\ nb.X_train_processed # << >> => nb.ct.fitted
    /\ nb.X_test_processed # << >> => nb.X_train_processed # << >>
    /\ nb.train_df # EmptyTable => nb.X_test_processed # << >>
    /\ (train_file # << >> \/ test_file # << >>) =>
          /\ pc = "done" /\ run_error = ""
          /\ train_file = ToCsv(nb.train_df) /\ test_file = ToCsv(nb.test_df)
          /\ nb.train_df # EmptyTable /\ nb.test_df # EmptyTable
    /\ pc = "failed" <=> run_error # ""
    /\ pc = "failed" => (train_file = << >> /\ test_file = << >>)
    /\ (BatchRank(pc) >= 3 /\ ~HasCol(nb.df.columns, label_column)) => pc = "failed"
    /\ (BatchRank(pc) >= 5 /\ NominalNaN(nb.X_train)) => pc = "failed"
    /\ (BatchRank(pc) >= 6 /\ nb.ct.fitted /\ HoldsUnseen(nb.ct.state, nb.X_test)) =>
          pc = "failed"

(* C13: a batch run takes its steps in the order read, concatenate, split, *)
(* fit, transform, write; a step that fails (no target column, a selected  *)
(* column one file lacks, a test category unseen in training) ends the run *)
(* with neither file written, and a file is written only by a run whose    *)
(* earlier steps all completed.                                            *)
C13_StrictOrderNoPartialOutput == [](NoPartialOutput) /\ [][NextStepOrAbort]_vars

C13_Witness ==
  /\ mode = "batch" /\ pc = "failed"
  /\ run_error = "ValueError: unknown categories"
  /\ nb.X_train_processed # << >>
  /\ HoldsUnseen(nb.ct.state, nb.X_test)
  /\ train_file = << >> /\ test_file = << >>

(* The cells up to y = df['G3'] have run.                                  *)
IngestionOver == mode = "batch" /\ BatchRank(pc) >= 3

(* C14: ingestion fails, before any split, fit or transform, whenever the  *)
(* two data files do not have the same set of columns and whenever the     *)
(* concatenated table has no column G3.                                    *)
C14_MismatchFailsAtIngestion ==
  (/\ IngestionOver
   /\ \/ Range(Head(math_file)) # Range(Head(port_file))
      \/ ~HasCol(nb.df.columns, label_column)) =>
     /\ pc = "failed"
     /\ ~SplitDone
     /\ ~nb.ct.fitted
     /\ nb.X_train_processed = << >> /\ nb.X_test_processed = << >>

(* The channel holds no data file: it is empty, or its entries are empty   *)
(* sub-directories.                                                        *)
HoldsNoFile(channel) ==
  \A k \in DOMAIN channel : channel[k].isdir /\ channel[k].files = << >>

(* sagemaker_preprocessing.py has run.                                     *)
PreprocessRan ==
  /\ mode = "served"
  /\ \/ artifact.fitted
     \/ pc = "failed" /\ train_channel # << >>
     \/ pc = "failed" /\ run_error = NoFiles

(* sagemaker_modeling.py has run.                                          *)
ModelingRan ==
  /\ mode = "served" /\ artifact.fitted
  /\ \/ estimator.fitted
     \/ pc = "failed" /\ preprocessed_train # << >>
     \/ pc = "failed" /\ run_error = NoFiles

(* C15: a train channel without a data file (empty, or holding only empty  *)
(* sub-directories) makes the preprocessing script and the modeling script *)
(* fail with the no-files error, before any fit and with no model          *)
(* persisted.                                                              *)
C15_NoFilesError ==
  /\ (PreprocessRan /\ HoldsNoFile(train_channel)) =>
        /\ pc = "failed"
        /\ run_error = NoFiles
        /\ ~artifact.fitted
  /\ (ModelingRan /\ HoldsNoFile(preprocessed_train)) =>
        /\ pc = "failed"
        /\ run_error = NoFiles
        /\ ~estimator.fitted

(* The table with every cell of an unselected feature column (school, sex, *)
(* G1, G2, ...) replaced: by one text, or by a number that differs from    *)
(* row to row and from column to column.                                   *)
Overwritten(table, text) ==
  [table EXCEPT !.rows =
     [r \in DOMAIN table.rows |->
        [i \in DOMAIN table.columns |->
           IF table.columns[i] \in SelectedSet \cup {label_column}
             THEN table.rows[r][i]
             ELSE text]]]

Renumbered(table) ==
  [table EXCEPT !.rows =
     [r \in DOMAIN table.rows |->
        [i \in DOMAIN table.columns |->
           IF table.columns[i] \in SelectedSet \cup {label_column}
             THEN table.rows[r][i]
             ELSE NumText[((r + i) % 20) + 1]]]]

OtherValues(table) == { Overwritten(table, "MS"), Renumbered(table) }

(* The table the preprocessing job is fit on.                              *)
ServedFitTable == ReadCsvIndexCol0(train_channel[1].lines).value

(* In batch mode, and for the fit of the preprocessing job, a table with   *)
(* other values in the unselected columns gives the same fitted state and  *)
(* the same transformed partitions.                                        *)
SameFitAndPartitions ==
  /\ (mode = "batch" /\ nb.ct.fitted) =>
        \A alt \in OtherValues(nb.X_train) :
          /\ Fit(alt) = Ok(nb.ct.state)
          /\ nb.X_train_processed # << >> =>
                Transform(nb.ct.state, alt) = Ok(nb.X_train_processed)
  /\ TestTransformRan =>
        \A alt \in OtherValues(nb.X_test) :
          /\ Transform(nb.ct.state, alt) = Transform(nb.ct.state, nb.X_test)
          /\ nb.X_test_processed # << >> =>
                Transform(nb.ct.state, alt) = Ok(nb.X_test_processed)
  /\ (mode = "served" /\ pc = "transform_job") =>
        \A alt \in OtherValues(ServedFitTable) : Fit(alt) = Ok(artifact.state)

(* The step of predict_fn for a request gives what predict_fn gives for    *)
(* the request's table with other values in the unselected columns.        *)
SamePrediction ==
  \A r \in Requests :
    (req[r].pc = "predict_fn" /\ req'[r].pc # "predict_fn") =>
      \A alt \in OtherValues(req[r].df) :
        IF req'[r].pc = "failed"
          THEN predict_fn(alt, model.state) = Raise(req'[r].error)
          ELSE predict_fn(alt, model.state) = Ok(req'[r].prediction)

(* C16: the unselected columns do not influence the result: a table that   *)
(* agrees with the one used on the 14 selected columns and differs in      *)
(* every other feature column gives the same fitted state and the same     *)
(* transformed rows (or the same error), in batch mode and in served mode. *)
C16_UnselectedColumnsIgnored == [](SameFitAndPartitions) /\ [][SamePrediction]_vars

C16_Witness ==
  /\ mode = "batch" /\ pc = "done"
  /\ \A alt \in OtherValues(nb.X_train) :
        /\ \A r \in DOMAIN alt.rows : alt.rows[r] # nb.X_train.rows[r]
        /\ Cell(alt, 1, "G1") # Cell(nb.X_train, 1, "G1")
        /\ Cell(alt, 1, "school") # Cell(nb.X_train, 1, "school")
        /\ Fit(alt) = Ok(nb.ct.state)
        /\ Transform(nb.ct.state, alt) = Ok(nb.X_train_processed)

(* The values of numeric column c in the rows of the table.                *)
NumbersOf(table, c) == { IntOf(v) : v \in ColumnValues(table, c) }

(* C17: in batch mode the fitted state is that of the training partition   *)
(* alone: the stored minimum and maximum of a numeric column are those of  *)
(* its training values, the stored categories of a nominal column are the  *)
(* values its training rows hold, and the fitted state and the transformed *)
(* training table are functions of the training partition, whatever the    *)
(* test partition holds and after the test partition is transformed.       *)
C17_FitOnTrainingRowsOnly ==
  (mode = "batch" /\ nb.ct.fitted) =>
    /\ \A c \in NumericSet :
         /\ nb.ct.state.data_min_[c] \in NumbersOf(nb.X_train, c)
         /\ nb.ct.state.data_max_[c] \in NumbersOf(nb.X_train, c)
         /\ \A v \in NumbersOf(nb.X_train, c) :
              nb.ct.state.data_min_[c] <= v /\ v <= nb.ct.state.data_max_[c]
    /\ \A c \in NominalSet :
         Range(nb.ct.state.categories_[c]) = ColumnValues(nb.X_train, c)
    /\ Fit(nb.X_train) = Ok(nb.ct.state)
    /\ nb.X_train_processed # << >> =>
         Transform(nb.ct.state, nb.X_train) = Ok(nb.X_train_processed)

C17_Witness ==
  /\ mode = "batch" /\ nb.ct.fitted /\ nb.X_train_processed # << >>
  /\ TestTransformRan
  /\ \E v \in NumbersOf(nb.X_test, "age") : v > nb.ct.state.data_max_["age"]
  /\ \E v \in ColumnValues(nb.X_test, "Fjob") :
        v \notin Range(nb.ct.state.categories_["Fjob"])

(* The line of an output file for the record at position p of the          *)
(* concatenated table, written as row i of its partition: the index i - 1, *)
(* the record's transformed features, the record's G3.                     *)
OutputLine(i, p) ==
  << NumText[i] >> \o TransformRow(nb.ct.state, nb.df, p)
                  \o << Cell(nb.df, p, label_column) >>

(* C18: in train.csv and test.csv, after the header (an empty index name,  *)
(* the transformed column names, G3 last), line i holds the index, the     *)
(* transformed features of the i-th record of the partition and, last,     *)
(* the G3 of that same record, unchanged.                                  *)
C18_LabelsStayWithTheirRows ==
  (mode = "batch" /\ pc = "done") =>
    /\ Head(train_file) = << "" >> \o FeatureNames(nb.ct.state) \o << << label_column >> >>
    /\ Head(test_file) = Head(train_file)
    /\ Len(train_file) = Len(nb.train_idx) + 1
    /\ Len(test_file) = Len(nb.test_idx) + 1
    /\ \A i \in DOMAIN nb.train_idx : train_file[i + 1] = OutputLine(i, nb.train_idx[i])
    /\ \A i \in DOMAIN nb.test_idx : test_file[i + 1] = OutputLine(i, nb.test_idx[i])

C18_Witness ==
  /\ mode = "batch" /\ pc = "done"
  /\ \E i, j \in DOMAIN nb.df.index : i # j /\ nb.df.index[i] = nb.df.index[j]
  /\ \E i, j \in DOMAIN nb.train_idx :
        /\ i < j
        /\ nb.df.index[nb.train_idx[i]] = nb.df.index[nb.train_idx[j]]
        /\ nb.y_train[i] # nb.y_train[j]
        /\ train_file[i + 1][Len(train_file[i + 1])] = Cell(nb.df, nb.train_idx[i], label_column)
        /\ train_file[j + 1][Len(train_file[j + 1])] = Cell(nb.df, nb.train_idx[j], label_column)

(* The lines the transform job wrote for the training data.                *)
EmittedRows == preprocessed_train[1].lines

(* C19: every header-less, label-first line the transform job emits for    *)
(* the training data (one per training record) is one example of the       *)
(* modeling script, its first field the target and its other fields the    *)
(* features: as many examples are fitted as lines were emitted.            *)
C19_HandOffKeepsEveryExample ==
  (mode = "served" /\ estimator.fitted) =>
    /\ Len(EmittedRows) = Len(Tail(math_file)) + Len(Tail(port_file))
    /\ Len(estimator.y) = Len(EmittedRows)
    /\ Len(estimator.X) = Len(EmittedRows)
    /\ \A i \in DOMAIN EmittedRows :
         /\ estimator.y[i] = Head(EmittedRows[i])
         /\ estimator.X[i] = Tail(EmittedRows[i])

====
